---- MODULE Spec2Model ----
(***************************************************************************)
(* A state-machine model of train() in modal_train.py: the nanoGPT         *)
(* training loop (startup, model build / resume, the iteration loop with   *)
(* evaluation, checkpointing, gradient accumulation and the DDP gradient   *)
(* all-reduce, and shutdown).                                              *)
(*                                                                         *)
(* One OS process per rank.  Floating point values that the loop only      *)
(* compares (validation losses) are small integers; the sentinel 1e9 keeps *)
(* its value.  Model parameters are abstracted to the number of optimizer  *)
(* updates applied to them ("w") and the length of the position embedding  *)
(* ("wpe"), which is what crop_block_size changes.                         *)
(***************************************************************************)
EXTENDS Integers, Sequences, FiniteSets, TLC

\* ---------------------------------------------------------------- bounds
\* largest WORLD_SIZE of a distributed run
MaxWorld == 2
\* largest configured gradient_accumulation_steps
MaxAccum == 4
\* largest configured max_iters, and largest iter_num of a checkpoint found on disk
MaxIters == 2
\* validation losses are drawn from 1..MaxLoss
MaxLoss == 2

\* ------------------------------------------------------------- constants
\* best_val_loss = 1e9
BestValLossInit == 1000000000
\* batch_size: int = 12
DefaultBatchSize == 12
\* n_layer: int = 12, n_head: int = 12, n_embd: int = 768
DefaultNLayer == 12
DefaultNHead == 12
DefaultNEmbd == 768
\* vocab_size used from scratch when the dataset has no meta.pkl
DefaultVocabSize == 50304
\* learning_rate = 6e-4 and min_lr = 6e-5, in units of 1e-5
LearningRate == 60
MinLr == 6

VARIABLES
    config,                       \* the TrainingConfig of this run (immutable)
    env,                          \* process environment: RANK set?, WORLD_SIZE, meta.pkl
    disk,                         \* out_dir/ckpt.pt: <<>> (no file) or <<checkpoint>>
    pc,                           \* position of each process in train()
    process_group,                \* ranks that have joined and not left the group
    out_dir,                      \* ranks that have created the output directory
    gradient_accumulation_steps,  \* per process, after the ddp scale-down
    ddp_world_size,
    master_process,
    tokens_per_iter,
    iter_num,
    best_val_loss,
    model_args,
    model,
    optimizer,
    lr,
    losses,
    micro_step,
    grad,                         \* micro-steps accumulated into .grad since zero_grad
    require_backward_grad_sync,
    hist,                         \* per process observation counters (no effect on the run)
    nwrites,                      \* number of torch.save calls of the run
    saved,                        \* state of the saving process at the last torch.save
    torn,                         \* out_dir/ckpt.pt is the prefix of a pickle (a cut torch.save)
    X,                            \* per process: the batch held in X, Y of train() (0: none)
    batches_drawn                 \* per process: number of get_batch calls so far

vars == <<config, env, disk, pc, process_group, out_dir,
          gradient_accumulation_steps, ddp_world_size, master_process,
          tokens_per_iter, iter_num, best_val_loss, model_args, model,
          optimizer, lr, losses, micro_step, grad, require_backward_grad_sync,
          hist, nwrites, saved, torn, X, batches_drawn>>

\* ------------------------------------------------------------- processes
ddp == env.ddp

NumProcs == IF env.ddp THEN env.WORLD_SIZE ELSE 1

Procs == 0 .. (NumProcs - 1)

LossValues == 1 .. MaxLoss

Min(a, b) == IF a < b THEN a ELSE b

Max(a, b) == IF a > b THEN a ELSE b

\* ------------------------------------------------- model and state dicts
ArchKeys == {"n_layer", "n_head", "n_embd", "block_size", "bias", "vocab_size"}

NoModel == [built |-> FALSE, block_size |-> 0, w |-> 0, compiled |-> FALSE]

NoArgs == [n_layer |-> 0, n_head |-> 0, n_embd |-> 0, block_size |-> 0,
           bias |-> FALSE, vocab_size |-> 0, dropout |-> 0]

NoOptimizer == [lr |-> [kind |-> "none", num |-> 0, den |-> 1], steps |-> 0]

\* GPT(gptconf): a freshly initialised model of the given architecture
GPT(args) ==
    [built |-> TRUE, block_size |-> args.block_size, w |-> 0, compiled |-> FALSE]

\* the parameter names of the module, with the prefix a torch.compile wrapper adds
ParamKey(compiled, name) ==
    IF compiled THEN <<"_orig_mod", name>> ELSE <<name>>

\* raw_model.state_dict()
state_dict(m) ==
    [k \in {ParamKey(m.compiled, "w"), ParamKey(m.compiled, "wpe")} |->
        IF k[Len(k)] = "w" THEN m.w ELSE m.block_size]

\* faulty variant: the keys are loaded as they were saved
StripKeyNoop(k) == k

\* k[len(unwanted_prefix):] when k.startswith(unwanted_prefix), else k
StripKey(k) ==
    IF Len(k) > 1 /\ k[1] = "_orig_mod" THEN Tail(k) ELSE k

\* the loop that renames the keys of the loaded state dictionary
fix_state_dict(sd) ==
    LET keys == {StripKey(k) : k \in DOMAIN sd}
    IN  [nk \in keys |-> sd[CHOOSE k \in DOMAIN sd : StripKey(k) = nk]]

\* model.load_state_dict(state_dict) is strict: same keys, same shapes
CanLoad(m, sd) ==
    /\ DOMAIN sd = {<<"w">>, <<"wpe">>}
    /\ sd[<<"wpe">>] = m.block_size

load_state_dict(m, sd) == [m EXCEPT !.w = sd[<<"w">>]]

\* ------------------------------------------------------- learning rate
\* a learning rate is the exact value num/den ("value"), the cosine segment's
\* value at decay ratio num/den ("cosine"), or the exception get_lr raises
ConstLr(x) == [kind |-> "value", num |-> x, den |-> 1]

\* faulty variant: past lr_decay_iters the rate stays at learning_rate
get_lrNoFloor(cfg, it) ==
    IF it < cfg.warmup_iters
    THEN [kind |-> "value", num |-> cfg.learning_rate * (it + 1),
          den |-> cfg.warmup_iters + 1]
    ELSE IF it > cfg.lr_decay_iters
    THEN ConstLr(cfg.learning_rate)
    ELSE IF cfg.lr_decay_iters - cfg.warmup_iters = 0
    THEN [kind |-> "ZeroDivisionError", num |-> it - cfg.warmup_iters, den |-> 0]
    ELSE [kind |-> "cosine", num |-> it - cfg.warmup_iters,
          den |-> cfg.lr_decay_iters - cfg.warmup_iters]

get_lr(cfg, it) ==
    IF it < cfg.warmup_iters
    THEN [kind |-> "value", num |-> cfg.learning_rate * (it + 1),
          den |-> cfg.warmup_iters + 1]
    ELSE IF it > cfg.lr_decay_iters
    THEN ConstLr(cfg.min_lr)
    ELSE IF cfg.lr_decay_iters - cfg.warmup_iters = 0
    THEN [kind |-> "ZeroDivisionError", num |-> it - cfg.warmup_iters, den |-> 0]
    ELSE LET num == it - cfg.warmup_iters
             den == cfg.lr_decay_iters - cfg.warmup_iters
         IN  IF (den > 0 /\ 0 <= num /\ num <= den) \/ (den < 0 /\ 0 >= num /\ num >= den)
             THEN [kind |-> "cosine", num |-> num, den |-> den]
             ELSE [kind |-> "AssertionError", num |-> num, den |-> den]

\* lr = get_lr(iter_num) if decay_lr else learning_rate
IterLr(cfg, it) ==
    IF cfg.decay_lr THEN get_lr(cfg, it) ELSE ConstLr(cfg.learning_rate)

LrRaises(x) == x.kind \in {"ZeroDivisionError", "AssertionError"}

\* ---------------------------------------------------------- startup
\* faulty variant: the configured count is used unscaled by every process
PerProcessAccumUnscaled(G, W) == G

\* gradient_accumulation_steps //= ddp_world_size
PerProcessAccum(G, W) == G \div W

\* faulty variant: the assert is not evaluated
DivisibleByWorldUnchecked(G, W) == TRUE

\* assert gradient_accumulation_steps % ddp_world_size == 0
DivisibleByWorld(G, W) == G % W = 0

\* tokens_per_iter = gradient_accumulation_steps * ddp_world_size * batch_size * block_size
TokensPerIter(gas, W, cfg) == gas * W * cfg.batch_size * cfg.block_size

\* ------------------------------------------------- checkpoint and resume
\* the dict handed to torch.save
MakeCheckpoint(raw_model, opt, args, it, best, cfg) ==
    [model |-> state_dict(raw_model), optimizer |-> opt, model_args |-> args,
     iter_num |-> it, best_val_loss |-> best, config |-> cfg]

\* model_args from the command line; vocab_size = None is 0
ConfigModelArgs(cfg) ==
    [n_layer |-> cfg.n_layer, n_head |-> cfg.n_head, n_embd |-> cfg.n_embd,
     block_size |-> cfg.block_size, bias |-> cfg.bias, vocab_size |-> 0,
     dropout |-> cfg.dropout]

\* init_from == 'scratch'; meta_vocab_size = None is 0
ScratchArgs(cfg, meta_vocab_size) ==
    [ConfigModelArgs(cfg) EXCEPT !.vocab_size =
        IF meta_vocab_size # 0 THEN meta_vocab_size ELSE DefaultVocabSize]

\* faulty variant: the model is rebuilt from the command line's model_args
ResumeArgsFromConfig(cfg, ckpt) == ConfigModelArgs(cfg)

\* init_from == 'resume': the architecture fields are forced to the checkpoint's
ResumeArgs(cfg, ckpt) ==
    [k \in DOMAIN ConfigModelArgs(cfg) |->
        IF k \in ArchKeys THEN ckpt.model_args[k] ELSE ConfigModelArgs(cfg)[k]]

\* faulty variant: a resume that keeps the counters train() initialised
ResumeCountersFresh(ckpt) == [iter_num |-> 0, best_val_loss |-> BestValLossInit]

\* iter_num = checkpoint['iter_num']; best_val_loss = checkpoint['best_val_loss']
ResumeCounters(ckpt) ==
    [iter_num |-> ckpt.iter_num, best_val_loss |-> ckpt.best_val_loss]

\* model.crop_block_size(block_size) when block_size < model.config.block_size
CropModel(cfg, m) ==
    IF cfg.block_size < m.block_size THEN [m EXCEPT !.block_size = cfg.block_size] ELSE m

CropArgs(cfg, m, args) ==
    IF cfg.block_size < m.block_size THEN [args EXCEPT !.block_size = cfg.block_size] ELSE args

\* model.configure_optimizers(weight_decay, learning_rate, ...)
configure_optimizers(cfg) == [lr |-> ConstLr(cfg.learning_rate), steps |-> 0]

\* what torch.load finds in out_dir/ckpt.pt: no checkpoint when the file is
\* absent or is a truncated pickle
ReadableFile(dsk, truncated) == IF truncated THEN <<>> ELSE dsk

\* everything train() builds between "model init" and "compile the model":
\* ok is FALSE when torch.load or load_state_dict raises
BuildModel(cfg, meta_vocab_size, dsk) ==
    IF cfg.init_from = "scratch"
    THEN LET args == ScratchArgs(cfg, meta_vocab_size)
             m    == GPT(args)
         IN  [ok |-> TRUE, iter_num |-> 0, best_val_loss |-> BestValLossInit,
              model_args |-> CropArgs(cfg, m, args),
              model |-> [CropModel(cfg, m) EXCEPT !.compiled = cfg.compile],
              optimizer |-> configure_optimizers(cfg)]
    ELSE IF dsk = <<>>
    THEN [ok |-> FALSE, iter_num |-> 0, best_val_loss |-> BestValLossInit,
          model_args |-> ConfigModelArgs(cfg), model |-> NoModel,
          optimizer |-> NoOptimizer]
    ELSE LET ckpt == dsk[1]
             args == ResumeArgs(cfg, ckpt)
             m0   == GPT(args)
             sd   == fix_state_dict(ckpt.model)
             ok   == CanLoad(m0, sd)
             m    == IF ok THEN load_state_dict(m0, sd) ELSE m0
             cnt  == ResumeCounters(ckpt)
         IN  [ok |-> ok, iter_num |-> cnt.iter_num, best_val_loss |-> cnt.best_val_loss,
              model_args |-> CropArgs(cfg, m, args),
              model |-> [CropModel(cfg, m) EXCEPT !.compiled = cfg.compile],
              optimizer |-> ckpt.optimizer]

\* ------------------------------------------------------------ the loop
\* losses['val'] < best_val_loss or always_save_checkpoint
ShouldSave(val, best, always) == val < best \/ always

\* faulty variant: a checkpoint at every evaluation that passes the save test
HasProgressAlways(it) == TRUE

\* if iter_num > 0
HasProgress(it) == it > 0

\* faulty variant: every rank runs the evaluation and checkpoint block
EvalDueAnyRank(it, interval, master) == it % interval = 0

\* iter_num % eval_interval == 0 and master_process
EvalDue(it, interval, master) == it % interval = 0 /\ master

\* faulty variant: the short-circuit is tested against the advanced counter
EvalOnlyBreakAfterFirst(it, eval_only) == it = 1 /\ eval_only

\* if iter_num == 0 and eval_only: break
EvalOnlyBreak(it, eval_only) == it = 0 /\ eval_only

\* faulty variant: gradients are synchronised on the first micro-step of the window
SyncOnFirst(ms, gas) == ms = 0

\* model.require_backward_grad_sync = (micro_step == gradient_accumulation_steps - 1)
SyncOnLast(ms, gas) == ms = gas - 1

\* faulty variant: the loop runs one iteration more before it leaves
MaxItersReachedLate(it, max_iters) == it > max_iters + 1

\* if iter_num > max_iters: break
MaxItersReached(it, max_iters) == it > max_iters

\* faulty variant: the gradients are kept across the optimizer step
zero_gradSkipped(g) == g

\* optimizer.zero_grad(set_to_none=True)
zero_grad(g) == 0

\* get_batch(split): the batch the next call returns, after `drawn` calls; a
\* batch is named by the number of the call that sampled it
get_batch(drawn) == drawn + 1

\* faulty variant: estimate_loss draws its batches into the X, Y of train()
estimate_lossSharedXY(x, drawn, eval_iters) ==
    [X |-> drawn + 2 * eval_iters, drawn |-> drawn + 2 * eval_iters]

\* estimate_loss(): eval_iters batches of each of the two splits, drawn into
\* X, Y of its own and consumed there; the X, Y of train() keep their batch
estimate_loss(x, drawn, eval_iters) ==
    [X |-> x, drawn |-> drawn + 2 * eval_iters]

\* ------------------------------------------------------- initial states
BaseConfig ==
    [eval_interval |-> 1, eval_only |-> FALSE, always_save_checkpoint |-> TRUE,
     init_from |-> "scratch", gradient_accumulation_steps |-> 1,
     batch_size |-> DefaultBatchSize, block_size |-> 2,
     n_layer |-> DefaultNLayer, n_head |-> DefaultNHead, n_embd |-> DefaultNEmbd,
     dropout |-> 0, bias |-> FALSE, learning_rate |-> LearningRate,
     max_iters |-> MaxIters, decay_lr |-> TRUE, warmup_iters |-> 1,
     lr_decay_iters |-> 2, min_lr |-> MinLr, compile |-> TRUE,
     wandb_log |-> FALSE, eval_iters |-> 1]

\* the checkpoint an earlier run under prevcfg wrote at its iteration n
PrevCheckpoint(prevcfg, meta_vocab_size, n, best) ==
    MakeCheckpoint([GPT(ScratchArgs(prevcfg, meta_vocab_size)) EXCEPT
                        !.w = n, !.compiled = prevcfg.compile],
                   [lr |-> IterLr(prevcfg, n), steps |-> n],
                   ScratchArgs(prevcfg, meta_vocab_size), n, best, prevcfg)

\* runs that vary the loop and the process topology
InitTrain ==
    /\ env \in {[ddp |-> FALSE, WORLD_SIZE |-> 1, meta_vocab_size |-> 0]}
                \cup {[ddp |-> TRUE, WORLD_SIZE |-> w, meta_vocab_size |-> 0] :
                        w \in 1 .. MaxWorld}
    /\ config \in {[BaseConfig EXCEPT !.eval_interval = ei, !.eval_only = eo,
                        !.always_save_checkpoint = asc, !.init_from = i,
                        !.gradient_accumulation_steps = G, !.max_iters = mi] :
                      ei \in 1 .. 2, eo \in BOOLEAN, asc \in BOOLEAN,
                      i \in {"scratch", "resume"}, G \in 1 .. MaxAccum,
                      mi \in 0 .. MaxIters}
    /\ disk \in IF config.init_from = "scratch"
                THEN {<<>>}
                ELSE {<<PrevCheckpoint(config, 0, n, b)>> :
                        n \in 1 .. MaxIters, b \in LossValues}

\* single-process runs that vary what is built and what is found on disk
InitLifecycle ==
    /\ env \in {[ddp |-> FALSE, WORLD_SIZE |-> 1, meta_vocab_size |-> v] : v \in {0, 65}}
    /\ config \in {[BaseConfig EXCEPT !.always_save_checkpoint = asc, !.init_from = i,
                        !.compile = c, !.dropout = d, !.block_size = b,
                        !.decay_lr = dl] :
                      asc \in BOOLEAN, i \in {"scratch", "resume"}, c \in BOOLEAN,
                      d \in {0, 1}, b \in {1, 2}, dl \in BOOLEAN}
    /\ disk \in {<<>>} \cup
          {<<PrevCheckpoint([config EXCEPT !.compile = pc0, !.dropout = pd,
                                !.block_size = pb, !.n_layer = 6, !.n_head = 6,
                                !.n_embd = 384, !.bias = TRUE],
                            65, 1, best)>> :
             pc0 \in BOOLEAN, pd \in {0, 1}, pb \in config.block_size .. 2,
             best \in LossValues}

NoHist ==
    [evals |-> 0, steps |-> 0, micros |-> 0, arrivals |-> 0, syncs |-> 0,
     wsyncs |-> 0, flags |-> <<>>, first_step |-> -1, last_step |-> -1,
     start_iter |-> -1,
     ckpt_iter |-> -1, ckpt_args |-> [k \in ArchKeys |-> NoArgs[k]],
     min_seen |-> BestValLossInit, prefetched |-> {}, consumed |-> {}]

\* runs that vary the warmup / decay window of the learning rate schedule
InitLr ==
    /\ env \in {[ddp |-> FALSE, WORLD_SIZE |-> 1, meta_vocab_size |-> 0],
                [ddp |-> TRUE, WORLD_SIZE |-> 2, meta_vocab_size |-> 0]}
    /\ config \in {[BaseConfig EXCEPT !.gradient_accumulation_steps = 2,
                        !.init_from = i, !.decay_lr = dl,
                        !.warmup_iters = wi, !.lr_decay_iters = di] :
                      i \in {"scratch", "resume"}, dl \in BOOLEAN,
                      wi \in 0 .. MaxIters + 1, di \in 0 .. MaxIters + 1}
    /\ disk \in IF config.init_from = "scratch"
                THEN {<<>>}
                ELSE {<<PrevCheckpoint([config EXCEPT !.decay_lr = FALSE], 0, n, 1)>> :
                        n \in 1 .. MaxIters}

\* runs in which the tracking service or the checkpoint write can fail
InitFault ==
    /\ env \in {[ddp |-> FALSE, WORLD_SIZE |-> 1, meta_vocab_size |-> 0],
                [ddp |-> TRUE, WORLD_SIZE |-> 2, meta_vocab_size |-> 0]}
    /\ config \in {[BaseConfig EXCEPT !.gradient_accumulation_steps = 2,
                        !.init_from = i, !.always_save_checkpoint = asc,
                        !.wandb_log = wl] :
                      i \in {"scratch", "resume"}, asc \in BOOLEAN, wl \in BOOLEAN}
    /\ disk \in IF config.init_from = "scratch"
                THEN {<<>>}
                ELSE {<<PrevCheckpoint(config, 0, 1, b)>> : b \in LossValues}

\* the locals of train() before its first statement
InitLocals ==
    /\ pc = [p \in Procs |-> "start"]
    /\ process_group = {}
    /\ out_dir = {}
    /\ gradient_accumulation_steps = [p \in Procs |-> config.gradient_accumulation_steps]
    /\ ddp_world_size = [p \in Procs |-> 1]
    /\ master_process = [p \in Procs |-> FALSE]
    /\ tokens_per_iter = [p \in Procs |-> 0]
    /\ iter_num = [p \in Procs |-> 0]
    /\ best_val_loss = [p \in Procs |-> BestValLossInit]
    /\ model_args = [p \in Procs |-> NoArgs]
    /\ model = [p \in Procs |-> NoModel]
    /\ optimizer = [p \in Procs |-> NoOptimizer]
    /\ lr = [p \in Procs |-> NoOptimizer.lr]
    /\ losses = [p \in Procs |-> [val |-> 0]]
    /\ micro_step = [p \in Procs |-> 0]
    /\ grad = [p \in Procs |-> 0]
    /\ require_backward_grad_sync = [p \in Procs |-> TRUE]
    /\ hist = [p \in Procs |-> NoHist]
    /\ nwrites = 0
    /\ saved = <<>>
    /\ torn = FALSE
    /\ X = [p \in Procs |-> 0]
    /\ batches_drawn = [p \in Procs |-> 0]

Init == (InitTrain \/ InitLifecycle) /\ InitLocals

\* ---------------------------------------------------------------- startup
\* the positions of a process that died of an uncaught exception or was killed
Aborted == {"assert_failed", "load_failed", "lr_failed", "telemetry_failed",
            "save_failed", "killed"}

\* "various inits, derived attributes, I/O setup": the ddp branch with its
\* assert, tokens_per_iter and os.makedirs
DdpSetup(p) ==
    /\ pc[p] = "start"
    /\ LET W      == IF ddp THEN env.WORLD_SIZE ELSE 1
           G      == config.gradient_accumulation_steps
           master == IF ddp THEN p = 0 ELSE TRUE
           gas    == IF ddp THEN PerProcessAccum(G, W) ELSE G
       IN  /\ process_group' = IF ddp THEN process_group \cup {p} ELSE process_group
           /\ IF ddp /\ ~DivisibleByWorld(G, W)
              THEN /\ pc' = [pc EXCEPT ![p] = "assert_failed"]
                   /\ UNCHANGED <<gradient_accumulation_steps, ddp_world_size,
                                  master_process, tokens_per_iter, out_dir>>
              ELSE /\ pc' = [pc EXCEPT ![p] = "build"]
                   /\ gradient_accumulation_steps' =
                          [gradient_accumulation_steps EXCEPT ![p] = gas]
                   /\ ddp_world_size' = [ddp_world_size EXCEPT ![p] = W]
                   /\ master_process' = [master_process EXCEPT ![p] = master]
                   /\ tokens_per_iter' =
                          [tokens_per_iter EXCEPT ![p] = TokensPerIter(gas, W, config)]
                   /\ out_dir' = IF master THEN out_dir \cup {p} ELSE out_dir
    /\ UNCHANGED <<config, env, disk, iter_num, best_val_loss, model_args, model,
                   optimizer, lr, losses, micro_step, grad,
                   require_backward_grad_sync, hist, nwrites, saved, torn,
                   X, batches_drawn>>

\* "model init" to "compile the model": scratch or resume, crop, optimizer
ModelInit(p) ==
    /\ pc[p] = "build"
    /\ LET b == BuildModel(config, env.meta_vocab_size, ReadableFile(disk, torn))
       IN  /\ pc' = [pc EXCEPT ![p] = IF b.ok THEN "wrap" ELSE "load_failed"]
           /\ iter_num' = [iter_num EXCEPT ![p] = b.iter_num]
           /\ best_val_loss' = [best_val_loss EXCEPT ![p] = b.best_val_loss]
           /\ model_args' = [model_args EXCEPT ![p] = b.model_args]
           /\ model' = [model EXCEPT ![p] = b.model]
           /\ optimizer' = [optimizer EXCEPT ![p] = b.optimizer]
           /\ hist' = [hist EXCEPT
                         ![p].min_seen = b.best_val_loss,
                         ![p].start_iter = b.iter_num,
                         ![p].ckpt_iter = IF config.init_from = "resume" /\ disk # <<>>
                                          THEN disk[1].iter_num ELSE -1,
                         ![p].ckpt_args =
                             [k \in ArchKeys |->
                                 IF config.init_from = "resume" /\ disk # <<>>
                                 THEN disk[1].model_args[k] ELSE NoArgs[k]]]
    /\ UNCHANGED <<config, env, disk, process_group, out_dir,
                   gradient_accumulation_steps, ddp_world_size, master_process,
                   tokens_per_iter, lr, losses, micro_step, grad,
                   require_backward_grad_sync, nwrites, saved, torn,
                   X, batches_drawn>>

\* "wrap model into DDP container" (a collective: the constructor returns once
\* every rank has built its model) up to the first batch and "while True"
EnterLoop(p) ==
    /\ pc[p] = "wrap"
    /\ ddp => \A q \in Procs : pc[q] \notin {"start", "build"} \cup Aborted
    /\ pc' = [pc EXCEPT ![p] = "top"]
    /\ X' = [X EXCEPT ![p] = get_batch(batches_drawn[p])]
    /\ batches_drawn' = [batches_drawn EXCEPT ![p] = @ + 1]
    /\ hist' = [hist EXCEPT ![p].prefetched = @ \cup {get_batch(batches_drawn[p])}]
    /\ UNCHANGED <<config, env, disk, process_group, out_dir,
                   gradient_accumulation_steps, ddp_world_size, master_process,
                   tokens_per_iter, iter_num, best_val_loss, model_args, model,
                   optimizer, lr, losses, micro_step, grad,
                   require_backward_grad_sync, nwrites, saved, torn>>

\* --------------------------------------------------------------- the loop
\* faulty variant: the counter advances inside the master's logging block
NextIterNumMasterOnly(p) == IF master_process[p] THEN iter_num[p] + 1 ELSE iter_num[p]

\* iter_num += 1
NextIterNum(p) == iter_num[p] + 1

\* faulty variant: the short-circuit sits inside the master's evaluation block
LeavesAfterEvalMasterOnly(p) ==
    EvalOnlyBreak(iter_num[p], config.eval_only) /\ master_process[p]

\* the break between the evaluation block and the micro-step loop
LeavesAfterEval(p) == EvalOnlyBreak(iter_num[p], config.eval_only)

\* the head of one iteration: set the learning rate, evaluate and checkpoint
\* on cadence (master only), take the evaluate-only break
LoopHead(p) ==
    /\ pc[p] = "top"
    /\ LET it    == iter_num[p]
           newlr == IterLr(config, it)
       IN  IF LrRaises(newlr)
           THEN /\ pc' = [pc EXCEPT ![p] = "lr_failed"]
                /\ UNCHANGED <<lr, optimizer, losses, best_val_loss, disk, nwrites,
                               saved, hist, micro_step, X, batches_drawn>>
           ELSE \E v \in (IF EvalDue(it, config.eval_interval, master_process[p])
                          THEN LossValues ELSE {0}) :
                LET due   == v # 0
                    opt   == [optimizer[p] EXCEPT !.lr = newlr]
                    save  == due /\ ShouldSave(v, best_val_loss[p],
                                               config.always_save_checkpoint)
                    best  == IF save THEN v ELSE best_val_loss[p]
                    write == save /\ HasProgress(it)
                    ev    == IF due
                             THEN estimate_loss(X[p], batches_drawn[p],
                                                config.eval_iters)
                             ELSE [X |-> X[p], drawn |-> batches_drawn[p]]
                IN  /\ lr' = [lr EXCEPT ![p] = newlr]
                    /\ X' = [X EXCEPT ![p] = ev.X]
                    /\ batches_drawn' = [batches_drawn EXCEPT ![p] = ev.drawn]
                    /\ optimizer' = [optimizer EXCEPT ![p] = opt]
                    /\ losses' = IF due THEN [losses EXCEPT ![p] = [val |-> v]]
                                 ELSE losses
                    /\ best_val_loss' = [best_val_loss EXCEPT ![p] = best]
                    /\ disk' = IF write
                               THEN <<MakeCheckpoint(model[p], opt, model_args[p],
                                                     it, best, config)>>
                               ELSE disk
                    /\ nwrites' = IF write THEN nwrites + 1 ELSE nwrites
                    /\ saved' = IF write
                                THEN <<[by |-> p, iter_num |-> it,
                                        best_val_loss |-> best,
                                        model_args |-> model_args[p],
                                        model |-> model[p], optimizer |-> opt]>>
                                ELSE saved
                    /\ hist' = [hist EXCEPT
                                  ![p].evals = IF due THEN @ + 1 ELSE @,
                                  ![p].min_seen = IF due THEN Min(@, v) ELSE @]
                    /\ micro_step' = [micro_step EXCEPT ![p] = 0]
                    /\ pc' = [pc EXCEPT ![p] =
                                IF LeavesAfterEval(p) THEN "shutdown"
                                ELSE IF gradient_accumulation_steps[p] > 0
                                THEN "micro" ELSE "update"]
    /\ UNCHANGED <<config, env, process_group, out_dir,
                   gradient_accumulation_steps, ddp_world_size, master_process,
                   tokens_per_iter, iter_num, model_args, model, grad,
                   require_backward_grad_sync, torn>>

\* one pass of "for micro_step in range(gradient_accumulation_steps)": the
\* sync flag, forward, prefetch, backward.  With the flag set the backward
\* pass of a DDP model waits in the gradient all-reduce.
MicroStep(p) ==
    /\ pc[p] = "micro"
    /\ LET ms   == micro_step[p]
           gas  == gradient_accumulation_steps[p]
           sync == IF ddp THEN SyncOnLast(ms, gas) ELSE require_backward_grad_sync[p]
       IN  /\ require_backward_grad_sync' =
                  [require_backward_grad_sync EXCEPT ![p] = sync]
           /\ grad' = [grad EXCEPT ![p] = @ + 1]
           /\ micro_step' = [micro_step EXCEPT ![p] = ms + 1]
           /\ X' = [X EXCEPT ![p] = get_batch(batches_drawn[p])]
           /\ batches_drawn' = [batches_drawn EXCEPT ![p] = @ + 1]
           /\ hist' = [hist EXCEPT
                         ![p].micros = @ + 1,
                         ![p].consumed = @ \cup {X[p]},
                         ![p].prefetched = @ \cup {get_batch(batches_drawn[p])},
                         ![p].flags = IF ddp THEN Append(@, sync) ELSE @,
                         ![p].arrivals = IF ddp /\ sync THEN @ + 1 ELSE @]
           /\ pc' = [pc EXCEPT ![p] =
                       IF ddp /\ sync THEN "allreduce"
                       ELSE IF ms + 1 < gas THEN "micro" ELSE "update"]
    /\ UNCHANGED <<config, env, disk, process_group, out_dir,
                   gradient_accumulation_steps, ddp_world_size, master_process,
                   tokens_per_iter, iter_num, best_val_loss, model_args, model,
                   optimizer, lr, losses, nwrites, saved, torn>>

\* the gradient all-reduce of DDP's backward pass: a collective that
\* completes when every rank of the group has entered it
AllReduce ==
    /\ ddp
    /\ \A q \in Procs : pc[q] = "allreduce"
    /\ pc' = [q \in Procs |->
                IF micro_step[q] < gradient_accumulation_steps[q]
                THEN "micro" ELSE "update"]
    /\ hist' = [q \in Procs |->
                  [hist[q] EXCEPT !.syncs = @ + 1, !.wsyncs = @ + 1]]
    /\ UNCHANGED <<config, env, disk, process_group, out_dir,
                   gradient_accumulation_steps, ddp_world_size, master_process,
                   tokens_per_iter, iter_num, best_val_loss, model_args, model,
                   optimizer, lr, losses, micro_step, grad,
                   require_backward_grad_sync, nwrites, saved, torn,
                   X, batches_drawn>>

\* clip, scaler.step(optimizer), scaler.update(), zero_grad, logging,
\* iter_num += 1 and the termination test
OptimizerStep(p) ==
    /\ pc[p] = "update"
    /\ model' = [model EXCEPT ![p].w = @ + 1]
    /\ optimizer' = [optimizer EXCEPT ![p].steps = @ + 1]
    /\ grad' = [grad EXCEPT ![p] = zero_grad(@)]
    /\ iter_num' = [iter_num EXCEPT ![p] = NextIterNum(p)]
    /\ hist' = [hist EXCEPT
                  ![p].steps = @ + 1,
                  ![p].first_step = IF @ = -1 THEN iter_num[p] ELSE @,
                  ![p].last_step = iter_num[p],
                  ![p].wsyncs = 0,
                  ![p].flags = <<>>]
    /\ pc' = [pc EXCEPT ![p] =
                IF MaxItersReached(NextIterNum(p), config.max_iters)
                THEN "shutdown" ELSE "top"]
    /\ UNCHANGED <<config, env, disk, process_group, out_dir,
                   gradient_accumulation_steps, ddp_world_size, master_process,
                   tokens_per_iter, best_val_loss, model_args, lr, losses,
                   micro_step, require_backward_grad_sync, nwrites, saved, torn,
                   X, batches_drawn>>

\* after the loop: if ddp: destroy_process_group()
Shutdown(p) ==
    /\ pc[p] = "shutdown"
    /\ pc' = [pc EXCEPT ![p] = "done"]
    /\ process_group' = IF ddp THEN process_group \ {p} ELSE process_group
    /\ UNCHANGED <<config, env, disk, out_dir,
                   gradient_accumulation_steps, ddp_world_size, master_process,
                   tokens_per_iter, iter_num, best_val_loss, model_args, model,
                   optimizer, lr, losses, micro_step, grad,
                   require_backward_grad_sync, hist, nwrites, saved, torn,
                   X, batches_drawn>>

Next ==
    \/ \E p \in Procs : DdpSetup(p)
    \/ \E p \in Procs : ModelInit(p)
    \/ \E p \in Procs : EnterLoop(p)
    \/ \E p \in Procs : LoopHead(p)
    \/ \E p \in Procs : MicroStep(p)
    \/ \E p \in Procs : OptimizerStep(p)
    \/ \E p \in Procs : Shutdown(p)
    \/ AllReduce

Spec == Init /\ [][Next]_vars

\* some process that can take a step eventually does (the OS runs every
\* process, and a collective every rank has entered completes)
Fairness == WF_vars(Next)

FairSpec == Init /\ [][Next]_vars /\ Fairness

\* ------------------------------------------------- failures in the loop head
\* the head of an iteration in which wandb.log raises: the learning rate is
\* set and estimate_loss has run; nothing catches the exception
WandbLogFails(p) ==
    /\ pc[p] = "top"
    /\ config.wandb_log
    /\ ~LrRaises(IterLr(config, iter_num[p]))
    /\ EvalDue(iter_num[p], config.eval_interval, master_process[p])
    /\ \E v \in LossValues :
           /\ losses' = [losses EXCEPT ![p] = [val |-> v]]
           /\ hist' = [hist EXCEPT ![p].evals = @ + 1,
                                   ![p].min_seen = Min(@, v)]
    /\ lr' = [lr EXCEPT ![p] = IterLr(config, iter_num[p])]
    /\ optimizer' = [optimizer EXCEPT ![p].lr = IterLr(config, iter_num[p])]
    /\ batches_drawn' = [batches_drawn EXCEPT ![p] =
           estimate_loss(X[p], @, config.eval_iters).drawn]
    /\ pc' = [pc EXCEPT ![p] = "telemetry_failed"]
    /\ UNCHANGED <<config, env, disk, process_group, out_dir,
                   gradient_accumulation_steps, ddp_world_size, master_process,
                   tokens_per_iter, iter_num, best_val_loss, model_args, model,
                   micro_step, grad, require_backward_grad_sync, nwrites, saved,
                   torn, X>>

\* the head of an iteration whose torch.save does not complete: it raises
\* ("save_failed") or the process is terminated inside it ("killed").
\* torch.save opens out_dir/ckpt.pt itself for writing, so the file holds the
\* prefix of the new pickle; a later run finds that prefix when the volume is
\* snapshotted in this state, and the last committed file otherwise.
SaveCut(p, outcome) ==
    /\ pc[p] = "top"
    /\ ~LrRaises(IterLr(config, iter_num[p]))
    /\ EvalDue(iter_num[p], config.eval_interval, master_process[p])
    /\ HasProgress(iter_num[p])
    /\ \E v \in LossValues :
           /\ ShouldSave(v, best_val_loss[p], config.always_save_checkpoint)
           /\ losses' = [losses EXCEPT ![p] = [val |-> v]]
           /\ best_val_loss' = [best_val_loss EXCEPT ![p] = v]
           /\ hist' = [hist EXCEPT ![p].evals = @ + 1,
                                   ![p].min_seen = Min(@, v)]
    /\ \E snapshotted \in BOOLEAN : torn' = snapshotted
    /\ lr' = [lr EXCEPT ![p] = IterLr(config, iter_num[p])]
    /\ optimizer' = [optimizer EXCEPT ![p].lr = IterLr(config, iter_num[p])]
    /\ batches_drawn' = [batches_drawn EXCEPT ![p] =
           estimate_loss(X[p], @, config.eval_iters).drawn]
    /\ pc' = [pc EXCEPT ![p] = outcome]
    /\ UNCHANGED <<config, env, disk, process_group, out_dir,
                   gradient_accumulation_steps, ddp_world_size, master_process,
                   tokens_per_iter, iter_num, model_args, model,
                   micro_step, grad, require_backward_grad_sync, nwrites, saved, X>>

\* torch.save raises (the write fails)
SaveFails(p) == SaveCut(p, "save_failed")

\* the process is terminated from outside while it is inside torch.save
KillDuringSave(p) == SaveCut(p, "killed")

FaultNext ==
    \/ Next
    \/ \E p \in Procs : WandbLogFails(p)
    \/ \E p \in Procs : SaveFails(p)
    \/ \E p \in Procs : KillDuringSave(p)

FaultInit == InitFault /\ InitLocals

FaultSpec == FaultInit /\ [][FaultNext]_vars

\* the runs that vary the learning rate schedule
LrInit == InitLr /\ InitLocals

LrSpec == LrInit /\ [][Next]_vars

\* ===================================================================
\* Properties
\* ===================================================================
Resumed(p) == config.init_from = "resume" /\ hist[p].ckpt_iter > 0

InLoop(p) == pc[p] \in {"top", "micro", "allreduce", "update"}

\* C1 (as stated): after a resume from a checkpoint that recorded iter_num = N > 0
\* the loop never runs an iteration with iter_num = 0, and the first optimizer
\* step is executed in the iteration of index N + 1.
C1_FirstStepAtNPlusOne ==
    \A p \in Procs :
        Resumed(p) =>
            /\ InLoop(p) => iter_num[p] # 0
            /\ hist[p].first_step # -1 => hist[p].first_step = hist[p].ckpt_iter + 1

\* C1 (amended): after a resume from a checkpoint that recorded iter_num = N > 0
\* the loop never runs an iteration with iter_num = 0 (nor any below N), and the
\* first optimizer step is executed in the iteration of index N; N + 1 is the
\* value of iter_num after that step.
C1_FirstStepAtN ==
    \A p \in Procs :
        Resumed(p) =>
            /\ InLoop(p) => iter_num[p] # 0 /\ iter_num[p] >= hist[p].ckpt_iter
            /\ hist[p].first_step # -1 => hist[p].first_step = hist[p].ckpt_iter
            /\ hist[p].steps = 1 => iter_num[p] = hist[p].ckpt_iter + 1

C1_Witness ==
    \E p \in Procs :
        Resumed(p) /\ hist[p].ckpt_iter = MaxIters /\ hist[p].steps = 1

\* the Configs a process may resume under: the saving run's, with any
\* dropout, block_size and compile setting
ResumeConfigs ==
    {[config EXCEPT !.init_from = "resume", !.dropout = d, !.block_size = b,
                    !.compile = c] :
        d \in {0, 1}, b \in {1, 2}, c \in BOOLEAN}

Params(m) == [w |-> m.w, wpe |-> m.block_size]

SaveCondition(p) ==
    /\ master_process[p]
    /\ iter_num[p] > 0
    /\ iter_num[p] % config.eval_interval = 0
    /\ (losses'[p].val < best_val_loss[p] \/ config.always_save_checkpoint)

\* C3: a checkpoint is written in an iteration iff the process is the master,
\* iter_num > 0, iter_num is a multiple of eval_interval and (the validation loss
\* just measured is below best_val_loss or always_save_checkpoint is set); no
\* checkpoint is ever written at iter_num = 0.
C3_WriteIff ==
    /\ [](saved # <<>> => saved[1].iter_num > 0 /\ disk[1].iter_num > 0)
    /\ [][(nwrites' # nwrites) <=>
            \E p \in Procs :
                /\ pc[p] = "top" /\ pc'[p] \notin {"top"} \cup Aborted
                /\ SaveCondition(p)]_vars

C3_Witness ==
    /\ config.init_from = "scratch"
    /\ ~config.always_save_checkpoint
    /\ config.eval_interval = 2
    /\ nwrites = 1
    /\ saved[1].iter_num = 2
    /\ saved[1].best_val_loss = 1
    /\ hist[saved[1].by].evals = 2

\* C4 (as stated): best_val_loss is the minimum of its initial value and all the
\* validation losses observed so far.
C4_BestIsMinimum ==
    \A p \in Procs : best_val_loss[p] = hist[p].min_seen

\* C5: a loop that starts with iter_num = 0 under eval_only runs one evaluation
\* pass (on the master; the other ranks never evaluate) and leaves for shutdown
\* without a micro-step, an optimizer step or a checkpoint write.
C5_EvalOnly ==
    \A p \in Procs :
        (config.eval_only /\ hist[p].start_iter = 0) =>
            /\ pc[p] \notin {"micro", "allreduce", "update"}
            /\ hist[p].micros = 0 /\ hist[p].steps = 0 /\ grad[p] = 0
            /\ nwrites = 0
            /\ pc[p] \in {"shutdown", "done"} =>
                   hist[p].evals = (IF master_process[p] THEN 1 ELSE 0)

C5_Witness ==
    /\ config.eval_only
    /\ \A p \in Procs : pc[p] = "done" /\ hist[p].start_iter = 0
    /\ \E p \in Procs : hist[p].evals = 1

\* C6: past the ddp setup, the per-process accumulation count times the world
\* size is the configured count G, and tokens_per_iter = G * batch_size *
\* block_size whatever the world size (1 for a single-process run).
C6_ScalingInvariance ==
    \A p \in Procs :
        pc[p] \notin {"start", "assert_failed"} =>
            /\ ddp_world_size[p] = NumProcs
            /\ gradient_accumulation_steps[p] * ddp_world_size[p]
                   = config.gradient_accumulation_steps
            /\ tokens_per_iter[p] = config.gradient_accumulation_steps
                                      * config.batch_size * config.block_size

C6_Witness ==
    /\ ddp /\ env.WORLD_SIZE = 2 /\ config.gradient_accumulation_steps = 4
    /\ \A p \in Procs : pc[p] = "top" /\ gradient_accumulation_steps[p] = 2

\* C7: in a distributed run whose gradient_accumulation_steps is not divisible by
\* world_size every process dies in the setup assert: no model is built, nothing
\* is evaluated, trained or written, and a dead process never runs again.
C7_NonDivisibleAborts ==
    /\ []((ddp /\ config.gradient_accumulation_steps % env.WORLD_SIZE # 0) =>
            \A p \in Procs :
                /\ pc[p] \in {"start", "assert_failed"}
                /\ model[p] = NoModel
                /\ hist[p] = NoHist
                /\ grad[p] = 0
                /\ nwrites = 0 /\ saved = <<>>)
    /\ [][\A p \in Procs : pc[p] = "assert_failed" => pc'[p] = "assert_failed"]_vars

C7_Witness ==
    /\ ddp /\ env.WORLD_SIZE = 2 /\ config.gradient_accumulation_steps = 3
    /\ \A p \in Procs : pc[p] = "assert_failed"

\* C8: in every accumulation window of a distributed process the sync flag is set
\* on the last micro-step and on no other, and the window is closed by exactly
\* one gradient all-reduce before the optimizer step.
C8_SyncOnLastOnly ==
    ddp =>
        \A p \in Procs :
            /\ \A i \in 1 .. Len(hist[p].flags) :
                   hist[p].flags[i] = (i = gradient_accumulation_steps[p])
            /\ pc[p] = "update" =>
                   /\ Len(hist[p].flags) = gradient_accumulation_steps[p]
                   /\ hist[p].wsyncs = 1
            /\ pc[p] \in {"micro", "allreduce"} => hist[p].wsyncs = 0

C8_Witness ==
    /\ ddp /\ env.WORLD_SIZE = 2
    /\ \A p \in Procs : pc[p] = "update" /\ gradient_accumulation_steps[p] = 2
                            /\ hist[p].steps = 1

\* C9: when a gradient all-reduce completes, all ranks are at the same iter_num,
\* with the same learning rate set and the same number of micro-steps run in the
\* window; and no rank has taken more optimizer steps than any rank has entered
\* all-reduces.
C9_Lockstep ==
    ddp =>
        /\ (\A p \in Procs : pc[p] = "allreduce") =>
               \A p, q \in Procs :
                   /\ iter_num[p] = iter_num[q]
                   /\ lr[p] = lr[q] /\ optimizer[p].lr = lr[p]
                   /\ micro_step[p] = micro_step[q]
                   /\ grad[p] = grad[q]
        /\ \A p, q \in Procs : hist[p].steps <= hist[q].arrivals

C9_Witness ==
    /\ ddp /\ env.WORLD_SIZE = 2
    /\ \A p \in Procs : pc[p] = "allreduce" /\ iter_num[p] = 1
    /\ hist[0].evals = 2 /\ nwrites = 1

StartupValid ==
    /\ ddp => config.gradient_accumulation_steps % env.WORLD_SIZE = 0
    /\ config.init_from = "resume" => disk # <<>>

AllDone == \A p \in Procs : pc[p] = "done"

\* C10: a run whose startup does not abort ends with every process shut down,
\* after every rank has entered and completed the same number of all-reduces.
C10_Termination ==
    /\ StartupValid => <>AllDone
    /\ [](AllDone => \A p, q \in Procs :
                        /\ hist[p].arrivals = hist[q].arrivals
                        /\ hist[p].syncs = hist[p].arrivals)
    /\ [](\A p \in Procs : pc[p] = "done" => hist[p].syncs = hist[p].arrivals)

C10_Witness ==
    /\ ddp /\ env.WORLD_SIZE = 2
    /\ AllDone
    /\ \A p \in Procs : hist[p].syncs = 2

\* C11 (as stated): every process that joined the process group stays in it
\* while it runs its loop and has left it once it is out of train(), whether it
\* returned after the loop (max_iters, evaluate-only) or died of an error.
C11_ReleasedOnEveryExit ==
    \A p \in Procs :
        /\ (ddp /\ InLoop(p)) => p \in process_group
        /\ pc[p] \in Aborted \cup {"done"} => p \notin process_group

\* C12: only rank 0 is a master; only rank 0 creates the output directory,
\* evaluates, and writes (and commits) the checkpoint, so the checkpoint has a
\* single, sequential writer.
C12_MasterOnlyWrites ==
    /\ out_dir \subseteq {0}
    /\ \A p \in Procs : master_process[p] => p = 0
    /\ \A p \in Procs \ {0} : hist[p].evals = 0 /\ losses[p].val = 0
    /\ saved # <<>> => saved[1].by = 0 /\ master_process[saved[1].by]

C12_Witness ==
    /\ ddp /\ env.WORLD_SIZE = 2
    /\ out_dir = {0}
    /\ nwrites = 2 /\ saved[1].by = 0
    /\ pc[1] = "done" /\ hist[1].steps = 2

\* C13: iter_num is never negative and, once the model is built, equals its
\* starting value (0, or the resumed value) plus the number of optimizer steps
\* this process has completed; nothing else moves it.
C13_IterNumCountsSteps ==
    \A p \in Procs :
        /\ iter_num[p] >= 0
        /\ hist[p].start_iter = -1 => iter_num[p] = 0 /\ hist[p].steps = 0
        /\ hist[p].start_iter # -1 =>
               iter_num[p] = hist[p].start_iter + hist[p].steps

C13_Witness ==
    \E p \in Procs :
        /\ hist[p].start_iter = 1 /\ hist[p].steps = 2 /\ iter_num[p] = 3
        /\ hist[p].evals = 2 /\ nwrites = 2

\* the model of process p has been built
Built(p) == pc[p] \notin {"start", "build", "assert_failed", "load_failed"}

\* C17 (as stated): after a resume every architecture field of model_args, in
\* the process and in every checkpoint it writes, is the resumed checkpoint's,
\* whatever the Config holds; dropout is the Config's.
C17_ArchFromCheckpoint ==
    \A p \in Procs :
        (Resumed(p) /\ Built(p)) =>
            /\ \A k \in ArchKeys : model_args[p][k] = hist[p].ckpt_args[k]
            /\ model_args[p].dropout = config.dropout
            /\ (saved # <<>> /\ saved[1].by = p) =>
                   /\ disk[1].model_args = model_args[p]
                   /\ \A k \in ArchKeys :
                          disk[1].model_args[k] = hist[p].ckpt_args[k]

\* C17 (amended): after a resume n_layer, n_head, n_embd, bias and vocab_size of
\* model_args, in the process and in every checkpoint it writes, are the resumed
\* checkpoint's whatever the Config holds; block_size is the smaller of the
\* checkpoint's and the Config's (the model is built with the checkpoint's and
\* cropped); dropout is the Config's.
C17_ArchFromCheckpointCropped ==
    \A p \in Procs :
        (Resumed(p) /\ Built(p)) =>
            /\ \A k \in ArchKeys \ {"block_size"} :
                   model_args[p][k] = hist[p].ckpt_args[k]
            /\ model_args[p].block_size =
                   Min(config.block_size, hist[p].ckpt_args.block_size)
            /\ model_args[p].dropout = config.dropout
            /\ (saved # <<>> /\ saved[1].by = p) =>
                   disk[1].model_args = model_args[p]

C17_Witness ==
    \E p \in Procs :
        /\ Resumed(p) /\ Built(p)
        /\ config.block_size = 1 /\ hist[p].ckpt_args.block_size = 2
        /\ config.n_layer = DefaultNLayer /\ model_args[p].n_layer = 6
        /\ config.dropout = 1
        /\ nwrites = 1 /\ disk[1].model_args.block_size = 1

\* C18 (as stated): no optimizer step is executed in an iteration whose iter_num
\* is greater than max_iters, and a run that starts with iter_num > max_iters
\* executes no optimizer step at all.
C18_NoStepPastMaxIters ==
    \A p \in Procs :
        /\ hist[p].last_step <= config.max_iters
        /\ hist[p].start_iter > config.max_iters => hist[p].steps = 0

\* C18 (amended): no optimizer step is executed in an iteration whose iter_num
\* is greater than both max_iters and the starting iter_num; a run that starts
\* (by resume) with iter_num > max_iters executes exactly one optimizer step, in
\* the iteration of that starting iter_num, and then leaves for shutdown.
C18_OneStepPastMaxIters ==
    \A p \in Procs :
        /\ hist[p].last_step <= Max(config.max_iters, hist[p].start_iter)
        /\ hist[p].start_iter > config.max_iters =>
               /\ hist[p].steps <= 1
               /\ hist[p].steps = 1 =>
                      /\ hist[p].last_step = hist[p].start_iter
                      /\ pc[p] \in {"shutdown", "done"}
               /\ pc[p] \in {"shutdown", "done"} => hist[p].steps = 1

C18_Witness ==
    /\ config.max_iters = 1
    /\ \A p \in Procs :
           /\ pc[p] = "done"
           /\ hist[p].start_iter = 2 /\ hist[p].steps = 1 /\ hist[p].last_step = 2

\* C20: every iteration is gradient_accumulation_steps micro-steps, then one
\* optimizer step, then zero_grad: the accumulated gradient is empty at the
\* start of every window, holds exactly the micro-steps of the current window
\* while it runs, and holds gradient_accumulation_steps of them at the step.
C20_UpdateProtocol ==
    \A p \in Procs :
        /\ pc[p] \notin {"micro", "allreduce", "update"} => grad[p] = 0
        /\ pc[p] \in {"micro", "allreduce"} => grad[p] = micro_step[p]
        /\ pc[p] = "micro" => micro_step[p] < gradient_accumulation_steps[p]
        /\ pc[p] \in {"allreduce", "update"} =>
               grad[p] = gradient_accumulation_steps[p]
        /\ hist[p].micros =
               hist[p].steps * gradient_accumulation_steps[p] + grad[p]

C20_Witness ==
    \E p \in Procs :
        /\ gradient_accumulation_steps[p] = 3
        /\ pc[p] = "update" /\ grad[p] = 3
        /\ hist[p].steps = 1 /\ hist[p].micros = 6

\* the learning rate of the current iteration has been set
LrSet(p) == pc[p] \in {"micro", "allreduce", "update"}

\* C14 (as stated): with the schedule enabled, in every iteration i >
\* lr_decay_iters the learning rate set is min_lr, whatever warmup_iters and
\* lr_decay_iters are.
C14_FloorPastDecayAnyWindow ==
    \A p \in Procs :
        (config.decay_lr /\ LrSet(p) /\ iter_num[p] > config.lr_decay_iters) =>
            /\ lr[p] = ConstLr(config.min_lr)
            /\ optimizer[p].lr = lr[p]

\* C14 (amended): with the schedule enabled, in every iteration i >
\* lr_decay_iters that is not in the warmup (i >= warmup_iters) the learning
\* rate set is min_lr; in an iteration i < warmup_iters it is the warmup rate
\* learning_rate * (i + 1) / (warmup_iters + 1), also past lr_decay_iters.
C14_FloorPastDecayAfterWarmup ==
    \A p \in Procs :
        (config.decay_lr /\ LrSet(p)) =>
            /\ optimizer[p].lr = lr[p]
            /\ (iter_num[p] > config.lr_decay_iters
                    /\ iter_num[p] >= config.warmup_iters) =>
                   lr[p] = ConstLr(config.min_lr)
            /\ iter_num[p] < config.warmup_iters =>
                   lr[p] = [kind |-> "value",
                            num |-> config.learning_rate * (iter_num[p] + 1),
                            den |-> config.warmup_iters + 1]

C14_Witness ==
    \E p \in Procs :
        /\ config.decay_lr /\ LrSet(p)
        /\ config.warmup_iters = 1 /\ config.lr_decay_iters = 1
        /\ iter_num[p] = 2 /\ hist[p].start_iter = 2
        /\ lr[p] = ConstLr(MinLr)

\* C19 (as stated): whenever get_lr is evaluated, for any warmup_iters and
\* lr_decay_iters, the decay ratio of the cosine segment is well defined and in
\* [0, 1]: get_lr raises neither ZeroDivisionError nor AssertionError, and no
\* process dies setting the learning rate.
C19_DecayRatioDefined ==
    \A p \in Procs :
        /\ pc[p] # "lr_failed"
        /\ (config.decay_lr /\ InLoop(p)) =>
               ~LrRaises(get_lr(config, iter_num[p]))

\* a later resume under this Config can load what it finds in out_dir/ckpt.pt
ReaderLoads ==
    BuildModel([config EXCEPT !.init_from = "resume"], env.meta_vocab_size,
               ReadableFile(disk, torn)).ok

\* C15 (as stated): a later resume never finds a partially written checkpoint
\* file, also when the saving process was stopped in the middle of a save: once
\* a checkpoint has been saved, what the resume finds is a complete checkpoint
\* it can load.
C15_AtomicSave ==
    /\ ~torn
    /\ disk # <<>> => ReaderLoads

\* C16 (as stated): a failure of wandb.log at evaluation time never ends the
\* process: no process is ever dead of a telemetry failure (only of a failed
\* checkpoint write or another fatal error).
C16_TelemetrySwallowed ==
    \A p \in Procs : pc[p] # "telemetry_failed"

\* C21: once the first batch is fetched, the batch held in X, Y was sampled by
\* an earlier get_batch call of the training loop and no forward pass has
\* consumed it; it is the only training batch sampled and not consumed; every
\* training forward pass consumed a batch of its own; and the batches
\* estimate_loss draws are never the one held, so an evaluation neither consumes
\* nor replaces it.
C21_PrefetchNoStaleness ==
    \A p \in Procs :
        /\ hist[p].consumed \subseteq hist[p].prefetched
        /\ hist[p].prefetched \subseteq 1 .. batches_drawn[p]
        /\ Cardinality(hist[p].consumed) = hist[p].micros
        /\ X[p] = 0 => hist[p].prefetched = {} /\ batches_drawn[p] = 0
        /\ X[p] # 0 =>
               /\ X[p] \notin hist[p].consumed
               /\ hist[p].prefetched \ hist[p].consumed = {X[p]}
               /\ batches_drawn[p] =
                      1 + hist[p].micros + 2 * config.eval_iters * hist[p].evals

C21_Witness ==
    \E p \in Procs :
        /\ pc[p] = "update"
        /\ hist[p].evals = 2
        /\ hist[p].consumed = {1, 4}
        /\ X[p] = 7 /\ batches_drawn[p] = 7

====
